---- MODULE Spec2Model ----
(***************************************************************************)
(* Model of the VMRule reconcile dispatcher of the operator:               *)
(*   - VMRuleReconciler.Reconcile (fetch, admission gate, list of VMAlert  *)
(*     candidates, selector matching, materialisation of rule configmaps)  *)
(*   - the controller work queue that feeds it (SetupWithManager)          *)
(***************************************************************************)
EXTENDS Integers, Sequences, FiniteSets, TLC

\* ----------------------------------------------------------------- bounds
MaxCands == 2          \* longest VMAlert list returned by the list call
MaxWorkers == 2        \* largest MaxConcurrentReconciles of the controller
LimiterBudget == 1     \* reconciles admitted per limiter window
ClientBurst == 1       \* -client.burst: size of the transport token bucket
MaxProbes == 2         \* concurrent calls of the readiness probe
MaxSpecs == 3          \* values the spec of a foreign object takes
MaxWrites == 4         \* writes of the converter to a mirror
MaxLen == 3            \* longest value of -controller.disableCacheFor, in atoms

\* ------------------------------------------------------------- vocabulary
Keys == {"r1", "r2"}                 \* req.NamespacedName of VMRule objects
Workers == 1..MaxWorkers             \* worker goroutines of the controller
Namespaces == {"ns1", "ns2"}
Selectors == {"nil", "team=x", "malformed"}

NoKey == "none"
EmptyResult == "empty"               \* ctrl.Result{}
NilErr == "nil"

\* a VMRule object as stored in the cluster / returned by r.Get
\* the *client.CacheOptions that is nil
NilOptions == [nil |-> TRUE, DisableFor |-> <<>>]
\* the mirror of f1 before the converter has written it
NoMirror == [exists |-> FALSE, name |-> "f1", spec |-> 0]
NoObject == [exists |-> FALSE, deleting |-> FALSE, labels |-> {}, namespace |-> "ns1"]
TargetObjects ==
    [exists : {TRUE}, deleting : BOOLEAN, labels : SUBSET {"team=x"}, namespace : Namespaces]

\* a VMAlert item of the list: DeletionTimestamp, Spec.ParsingError,
\* Spec.SelectAllByDefault, Spec.RuleSelector; all VMAlerts live in ns1
AllVMAlerts ==
    [deleting : BOOLEAN, parsingError : BOOLEAN, selectAll : BOOLEAN,
     selector : Selectors, namespace : {"ns1"}]

\* the VMAlert objects the model enumerates: every shape of an eligible
\* VMAlert, and the skipped ones in the shape where skipping matters most,
\* with one reason to skip each
CandidateKinds ==
    {c \in AllVMAlerts :
        /\ (c.deleting \/ c.parsingError) => (c.selectAll /\ c.selector = "nil")
        /\ ~(c.deleting /\ c.parsingError)}

RECURSIVE SeqsUpTo(_, _)
SeqsUpTo(S, n) ==
    IF n = 0 THEN {<<>>}
    ELSE LET shorter == SeqsUpTo(S, n - 1)
         IN  shorter \cup {Append(s, x) : s \in {t \in shorter : Len(t) = n - 1}, x \in S}

VARIABLES
    targets,        \* cluster: VMRule object per key known to the informer
    vmalerts,       \* cluster: the VMAlert objects, in list order
    maxConcurrentReconciles, \* controller option (getDefaultOptions)
    queue,          \* work queue: keys waiting, in order
    dirty,          \* work queue: keys that need processing
    processing,     \* work queue: keys being processed
    backoff,        \* keys waiting for their rate-limited re-add
    budget,         \* vmAlertRateLimiter: admissions left in this window
    registered,     \* RegisterObjectStat: keys counted by the collector
    derived,        \* indexes of VMAlerts whose rule configmaps were written
    pc,             \* per worker: position inside Reconcile
    req,            \* per worker: the request key
    instance,       \* per worker: the fetched VMRule
    objects,        \* per worker: objects.Items
    idx,            \* per worker: loop position in objects.Items
    result,         \* per worker: returned ctrl.Result
    err,            \* per worker: returned error
    fetch,          \* per worker: outcome of r.Get in this pass
    gate,           \* per worker: decision of the admission gate in this pass
    listed,         \* per worker: outcome of the list call in this pass
    matcherCalls,   \* per worker: indexes the matcher was invoked for
    matcherOut,     \* per worker: outcomes of these invocations
    materialized,   \* per worker: indexes the materializer was invoked for
    failedAt,       \* per worker: index whose materializer call failed, or 0
    writes          \* per worker: write calls issued in this pass

cluster == <<targets, vmalerts>>
wq == <<queue, dirty, processing, backoff>>
locals == <<pc, req, instance, objects, idx, result, err>>
history == <<fetch, gate, listed, matcherCalls, matcherOut, materialized, failedAt, writes>>
reconcileVars ==
    <<targets, vmalerts, maxConcurrentReconciles, queue, dirty, processing,
      backoff, budget, registered, derived, pc, req, instance, objects,
      idx, result, err, fetch, gate, listed, matcherCalls, matcherOut,
      materialized, failedAt, writes>>

VARIABLES
    tokens,         \* config.RateLimiter: tokens left in the transport bucket
    flags,          \* the command line flags and the watch namespaces
    mpc,            \* position inside RunManager
    ret,            \* how RunManager ended
    ctxDone,        \* the context passed to RunManager is cancelled
    mgr,            \* the controller manager: none, created, started, stopped
    bootstrap,      \* vmv1beta1.Init: none, running, done, failed
    bootstrapRuns,  \* number of times the ownership bootstrap was started
    webhooks,       \* addWebhooks has registered the webhooks
    controllers,    \* number of reconcilers registered with the manager
    converter,      \* converterController: none, created, added, running, stopped
    cacheSynced,    \* the manager's informer caches are synced
    wasCacheSynced, \* the package variable of the readiness check
    ppc,            \* per probe call: position inside the readiness check
    pres,           \* per probe call: what the check returned
    waitOk          \* a WaitForCacheSync call of the check has returned true

VARIABLES
    cleanup         \* <<key, index>> pairs the materializer was invoked for
                    \* with a target that carried a deletion marker

VARIABLES
    co,             \* RunManager: what getClientCacheOptions returned
    foreign,        \* converter: the foreign object f1 in the cluster
    native,         \* converter: the native mirror n1 of f1, or none
    nwrites,        \* converter: write calls made for n1
    pending         \* converter: an observation of f1 waits to be handled

transport == <<tokens>>
observed == <<cleanup>>
mirror == <<foreign, native, nwrites, pending>>
startup == <<flags, co, mpc, ret, ctxDone, mgr, bootstrap, bootstrapRuns, webhooks,
             controllers, converter>>
readyz == <<cacheSynced, wasCacheSynced, ppc, pres, waitOk>>
vars == <<reconcileVars, transport, startup, readyz, observed, mirror>>

Probes == 1..MaxProbes

\* ------------------------------------------------------ pure helpers
\* Selector Matcher: <<match, error>> for a VMRule and a VMAlert
isSelectorsMatchesTargetCRD(target, vmalert) ==
    IF vmalert.selector = "malformed" THEN <<FALSE, TRUE>>
    ELSE IF vmalert.namespace # target.namespace THEN <<FALSE, FALSE>>
    ELSE IF vmalert.selector = "nil" THEN <<TRUE, FALSE>>
    ELSE <<vmalert.selector \in target.labels, FALSE>>

\* deferred on every return of Reconcile: not-found is swallowed
handleReconcileErr(res, e) ==
    IF e = NilErr THEN <<res, NilErr>>
    ELSE IF e = "notfound" THEN <<res, NilErr>>
    ELSE <<res, e>>

\* SkipCandidate without the ParsingError test
SkipCandidate_ignoresParsingError(c) == c.deleting

\* the loop's first test: DeletionTimestamp != nil || ParsingError != ""
SkipCandidate(c) == c.deleting \/ c.parsingError

\* NeedsMatch without the test of the target's DeletionTimestamp
NeedsMatch_ignoresDeletion(inst, c) == ~c.selectAll

\* NeedsMatch without the test of SelectAllByDefault
NeedsMatch_ignoresSelectAll(inst, c) == ~inst.deleting

\* the loop's second test: the matcher is consulted
NeedsMatch(inst, c) == ~inst.deleting /\ ~c.selectAll

\* ------------------------------------------------------- work queue
\* workqueue.Add that queues a key although a worker is processing it
QueueAdd_whileProcessing(k) ==
    IF k \in dirty THEN UNCHANGED <<queue, dirty>>
    ELSE /\ dirty' = dirty \cup {k}
         /\ queue' = Append(queue, k)

\* workqueue.Add: a key is queued once, and never while it is processed
QueueAdd(k) ==
    IF k \in dirty THEN UNCHANGED <<queue, dirty>>
    ELSE /\ dirty' = dirty \cup {k}
         /\ queue' = IF k \in processing THEN queue ELSE Append(queue, k)

\* a watch event or a resync tick for key k
Trigger(k) ==
    /\ QueueAdd(k)
    /\ UNCHANGED <<processing, backoff>>
    /\ UNCHANGED <<cluster, maxConcurrentReconciles, budget, registered, derived>>
    /\ UNCHANGED <<locals, history>>

\* the delayed re-add of AddRateLimited after an error
BackoffFire(k) ==
    /\ k \in backoff
    /\ backoff' = backoff \ {k}
    /\ QueueAdd(k)
    /\ UNCHANGED processing
    /\ UNCHANGED <<cluster, maxConcurrentReconciles, budget, registered, derived>>
    /\ UNCHANGED <<locals, history>>

\* a worker takes the next key (workqueue.Get) and enters Reconcile
Dequeue(w) ==
    /\ w <= maxConcurrentReconciles
    /\ pc[w] = "idle"
    /\ queue # <<>>
    /\ LET k == Head(queue) IN
        /\ queue' = Tail(queue)
        /\ processing' = processing \cup {k}
        /\ dirty' = dirty \ {k}
        /\ req' = [req EXCEPT ![w] = k]
    /\ pc' = [pc EXCEPT ![w] = "get"]
    /\ UNCHANGED <<cluster, maxConcurrentReconciles, backoff, budget, registered, derived>>
    /\ UNCHANGED <<instance, objects, idx, result, err, history>>

\* ------------------------------------------------------- Reconcile
\* a return statement of Reconcile, with the deferred handleReconcileErr
ReturnWith(w, res, e) ==
    LET out == handleReconcileErr(res, e) IN
    /\ pc' = [pc EXCEPT ![w] = "done"]
    /\ result' = [result EXCEPT ![w] = out[1]]
    /\ err' = [err EXCEPT ![w] = out[2]]

\* a failed Get that is ignored: Reconcile goes on to the admission gate
GetFailed_proceeds(w, e) ==
    /\ pc' = [pc EXCEPT ![w] = "gate"]
    /\ UNCHANGED <<result, err, instance, registered>>

\* if err := r.Get(...); err != nil { return result, &getError{...} }
GetFailed(w, e) ==
    /\ ReturnWith(w, result[w], e)
    /\ UNCHANGED <<instance, registered>>

\* a Get that fills in a default label on the object of the shared cache
GetInstance_defaultsInPlace(w) ==
    /\ pc[w] = "get"
    /\ \E apiFails \in BOOLEAN :
        IF apiFails
        THEN /\ fetch' = [fetch EXCEPT ![w] = "error"]
             /\ GetFailed(w, "geterr")
             /\ targets' = targets
        ELSE IF ~targets[req[w]].exists
        THEN /\ fetch' = [fetch EXCEPT ![w] = "notfound"]
             /\ GetFailed(w, "notfound")
             /\ targets' = targets
        ELSE /\ fetch' = [fetch EXCEPT ![w] = "ok"]
             /\ targets' = [targets EXCEPT ![req[w]].labels = {"team=x"}]
             /\ instance' = [instance EXCEPT ![w] = targets'[req[w]]]
             /\ registered' = registered \cup {req[w]}
             /\ pc' = [pc EXCEPT ![w] = "gate"]
             /\ UNCHANGED <<result, err>>
    /\ UNCHANGED <<vmalerts, maxConcurrentReconciles, wq, budget, derived>>
    /\ UNCHANGED <<req, objects, idx>>
    /\ UNCHANGED <<gate, listed, matcherCalls, matcherOut, materialized, failedAt, writes>>

\* r.Get(ctx, req.NamespacedName, instance) and RegisterObjectStat
GetInstance(w) ==
    /\ pc[w] = "get"
    /\ \E apiFails \in BOOLEAN :
        IF apiFails
        THEN /\ fetch' = [fetch EXCEPT ![w] = "error"]
             /\ GetFailed(w, "geterr")
        ELSE IF ~targets[req[w]].exists
        THEN /\ fetch' = [fetch EXCEPT ![w] = "notfound"]
             /\ GetFailed(w, "notfound")
        ELSE /\ fetch' = [fetch EXCEPT ![w] = "ok"]
             /\ instance' = [instance EXCEPT ![w] = targets[req[w]]]
             /\ registered' = registered \cup {req[w]}
             /\ pc' = [pc EXCEPT ![w] = "gate"]
             /\ UNCHANGED <<result, err>>
    /\ UNCHANGED <<cluster, maxConcurrentReconciles, wq, budget, derived>>
    /\ UNCHANGED <<req, objects, idx>>
    /\ UNCHANGED <<gate, listed, matcherCalls, matcherOut, materialized, failedAt, writes>>

\* a throttle decision that is ignored: Reconcile goes on to list
FastPath_fallsThrough(w) ==
    /\ pc' = [pc EXCEPT ![w] = "list"]
    /\ UNCHANGED <<result, err>>

\* the fast path: return ctrl.Result{}, nil
FastPath(w) == ReturnWith(w, EmptyResult, NilErr)

\* the limiter's decision: throttle once the window's budget is used up
ShouldThrottle == budget = 0

\* a gate that looks at the fetched VMRule: a deleting one is never throttled
MustThrottleReconcile_sparesDeleting(w) ==
    /\ pc[w] = "gate"
    /\ IF ~ShouldThrottle \/ instance[w].deleting
       THEN /\ budget' = IF budget > 0 THEN budget - 1 ELSE budget
            /\ gate' = [gate EXCEPT ![w] = "admitted"]
            /\ pc' = [pc EXCEPT ![w] = "list"]
            /\ UNCHANGED <<result, err>>
       ELSE /\ gate' = [gate EXCEPT ![w] = "throttled"]
            /\ FastPath(w)
            /\ UNCHANGED budget
    /\ UNCHANGED <<cluster, maxConcurrentReconciles, wq, registered, derived>>
    /\ UNCHANGED <<req, instance, objects, idx>>
    /\ UNCHANGED <<fetch, listed, matcherCalls, matcherOut, materialized, failedAt, writes>>

\* if vmAlertRateLimiter.MustThrottleReconcile() { return ctrl.Result{}, nil }
MustThrottleReconcile(w) ==
    /\ pc[w] = "gate"
    /\ IF ~ShouldThrottle
       THEN /\ budget' = budget - 1
            /\ gate' = [gate EXCEPT ![w] = "admitted"]
            /\ pc' = [pc EXCEPT ![w] = "list"]
            /\ UNCHANGED <<result, err>>
       ELSE /\ gate' = [gate EXCEPT ![w] = "throttled"]
            /\ FastPath(w)
            /\ UNCHANGED budget
    /\ UNCHANGED <<cluster, maxConcurrentReconciles, wq, registered, derived>>
    /\ UNCHANGED <<req, instance, objects, idx>>
    /\ UNCHANGED <<fetch, listed, matcherCalls, matcherOut, materialized, failedAt, writes>>

\* the limiter's window ends: the budget is refilled
LimiterWindow ==
    /\ budget < LimiterBudget
    /\ budget' = LimiterBudget
    /\ UNCHANGED <<cluster, maxConcurrentReconciles, wq, registered, derived>>
    /\ UNCHANGED <<locals, history>>

\* a failed list that is ignored: the loop runs over no items
ListFailed_ignored(w) ==
    /\ pc' = [pc EXCEPT ![w] = "loop"]
    /\ idx' = [idx EXCEPT ![w] = 1]
    /\ UNCHANGED <<objects, result, err>>

\* if err := ListObjectsByNamespace(...); err != nil { return result, fmt.Errorf(...) }
ListFailed(w) ==
    /\ ReturnWith(w, result[w], "listerr")
    /\ UNCHANGED <<objects, idx>>

\* k8stools.ListObjectsByNamespace into objects.Items
ListObjects(w) ==
    /\ pc[w] = "list"
    /\ \E apiFails \in BOOLEAN :
        IF apiFails
        THEN /\ listed' = [listed EXCEPT ![w] = "error"]
             /\ ListFailed(w)
        ELSE /\ listed' = [listed EXCEPT ![w] = "ok"]
             /\ objects' = [objects EXCEPT ![w] = vmalerts]
             /\ idx' = [idx EXCEPT ![w] = 1]
             /\ pc' = [pc EXCEPT ![w] = "loop"]
             /\ UNCHANGED <<result, err>>
    /\ UNCHANGED <<cluster, maxConcurrentReconciles, wq, budget, registered, derived>>
    /\ UNCHANGED <<req, instance>>
    /\ UNCHANGED <<fetch, gate, matcherCalls, matcherOut, materialized, failedAt, writes>>

\* continue: on to the next item of the range loop
Continue(w) ==
    /\ idx' = [idx EXCEPT ![w] = @ + 1]
    /\ UNCHANGED <<pc, result, err>>

\* a materializer call that takes a lock per VMAlert: it is entered only
\* while no other worker is inside the call for the same item
CallMaterializer_lockedPerParent(w) ==
    /\ \A v \in Workers \ {w} : ~(pc[v] = "materialize" /\ idx[v] = idx[w])
    /\ pc' = [pc EXCEPT ![w] = "materialize"]
    /\ UNCHANGED <<idx, result, err>>

\* the loop body reaches the materializer call
CallMaterializer(w) ==
    /\ pc' = [pc EXCEPT ![w] = "materialize"]
    /\ UNCHANGED <<idx, result, err>>

\* a selector error that aborts the pass instead of skipping the item
OnMatchError_aborts(w) ==
    /\ ReturnWith(w, EmptyResult, "matcherr")
    /\ UNCHANGED idx

\* if err != nil { reqLogger.Error(...); continue }
OnMatchError(w) == Continue(w)

\* a negative match that is materialized all the same
OnNoMatch_materializes(w) == CallMaterializer(w)

\* if !match { continue }
OnNoMatch(w) == Continue(w)

\* one iteration of the range loop up to the materializer call
LoopBody(w, inst, c) ==
    IF SkipCandidate(c)
    THEN /\ Continue(w)
         /\ UNCHANGED <<matcherCalls, matcherOut>>
    ELSE IF NeedsMatch(inst, c)
    THEN LET m == isSelectorsMatchesTargetCRD(inst, c) IN
         /\ matcherCalls' = [matcherCalls EXCEPT ![w] = Append(@, idx[w])]
         /\ matcherOut' = [matcherOut EXCEPT ![w] = Append(@, m)]
         /\ IF m[2] THEN OnMatchError(w)
            ELSE IF ~m[1] THEN OnNoMatch(w)
            ELSE CallMaterializer(w)
    ELSE /\ CallMaterializer(w)
         /\ UNCHANGED <<matcherCalls, matcherOut>>

\* for _, vmalertItem := range objects.Items { ... }; return
Loop(w) ==
    /\ pc[w] = "loop"
    /\ IF idx[w] > Len(objects[w])
       THEN /\ ReturnWith(w, result[w], err[w])
            /\ UNCHANGED <<idx, matcherCalls, matcherOut>>
       ELSE LoopBody(w, instance[w], objects[w][idx[w]])
    /\ UNCHANGED <<cluster, maxConcurrentReconciles, wq, budget, registered, derived>>
    /\ UNCHANGED <<req, instance, objects>>
    /\ UNCHANGED <<fetch, gate, listed, materialized, failedAt, writes>>

\* a materializer failure that is logged, with the loop going on
MaterializerFailed_continues(w) ==
    /\ failedAt' = [failedAt EXCEPT ![w] = idx[w]]
    /\ idx' = [idx EXCEPT ![w] = @ + 1]
    /\ pc' = [pc EXCEPT ![w] = "loop"]
    /\ UNCHANGED <<derived, result, err, writes>>

\* if err != nil { return ctrl.Result{}, fmt.Errorf("cannot update rules configmaps") }
MaterializerFailed(w) ==
    /\ ReturnWith(w, EmptyResult, "materr")
    /\ failedAt' = [failedAt EXCEPT ![w] = idx[w]]
    /\ UNCHANGED <<derived, idx, writes>>

\* vmalert.CreateOrUpdateRuleConfigMaps(ctx, currVMAlert, r)
CreateOrUpdateRuleConfigMaps(w) ==
    /\ pc[w] = "materialize"
    /\ materialized' = [materialized EXCEPT ![w] = Append(@, idx[w])]
    /\ \E fails \in BOOLEAN :
        IF fails
        THEN MaterializerFailed(w)
        ELSE /\ derived' = derived \cup {idx[w]}
             /\ writes' = [writes EXCEPT ![w] = @ + 1]
             /\ idx' = [idx EXCEPT ![w] = @ + 1]
             /\ pc' = [pc EXCEPT ![w] = "loop"]
             /\ UNCHANGED <<result, err, failedAt>>
    /\ UNCHANGED <<cluster, maxConcurrentReconciles, wq, budget, registered>>
    /\ UNCHANGED <<req, instance, objects>>
    /\ UNCHANGED <<fetch, gate, listed, matcherCalls, matcherOut>>

\* a controller that never calls Done: the key stays in processing
Finish_withoutDone(w) ==
    /\ pc[w] = "done"
    /\ backoff' = IF err[w] # NilErr THEN backoff \cup {req[w]} ELSE backoff
    /\ pc' = [pc EXCEPT ![w] = "idle"]
    /\ req' = [req EXCEPT ![w] = NoKey]
    /\ instance' = [instance EXCEPT ![w] = NoObject]
    /\ objects' = [objects EXCEPT ![w] = <<>>]
    /\ idx' = [idx EXCEPT ![w] = 0]
    /\ result' = [result EXCEPT ![w] = EmptyResult]
    /\ err' = [err EXCEPT ![w] = NilErr]
    /\ fetch' = [fetch EXCEPT ![w] = "none"]
    /\ gate' = [gate EXCEPT ![w] = "none"]
    /\ listed' = [listed EXCEPT ![w] = "none"]
    /\ matcherCalls' = [matcherCalls EXCEPT ![w] = <<>>]
    /\ matcherOut' = [matcherOut EXCEPT ![w] = <<>>]
    /\ materialized' = [materialized EXCEPT ![w] = <<>>]
    /\ failedAt' = [failedAt EXCEPT ![w] = 0]
    /\ writes' = [writes EXCEPT ![w] = 0]
    /\ UNCHANGED <<cluster, maxConcurrentReconciles, queue, dirty, processing,
                   budget, registered, derived>>

\* the controller takes Reconcile's return: requeue on error, then Done
Finish(w) ==
    /\ pc[w] = "done"
    /\ backoff' = IF err[w] # NilErr THEN backoff \cup {req[w]} ELSE backoff
    /\ processing' = processing \ {req[w]}
    /\ queue' = IF req[w] \in dirty THEN Append(queue, req[w]) ELSE queue
    /\ pc' = [pc EXCEPT ![w] = "idle"]
    /\ req' = [req EXCEPT ![w] = NoKey]
    /\ instance' = [instance EXCEPT ![w] = NoObject]
    /\ objects' = [objects EXCEPT ![w] = <<>>]
    /\ idx' = [idx EXCEPT ![w] = 0]
    /\ result' = [result EXCEPT ![w] = EmptyResult]
    /\ err' = [err EXCEPT ![w] = NilErr]
    /\ fetch' = [fetch EXCEPT ![w] = "none"]
    /\ gate' = [gate EXCEPT ![w] = "none"]
    /\ listed' = [listed EXCEPT ![w] = "none"]
    /\ matcherCalls' = [matcherCalls EXCEPT ![w] = <<>>]
    /\ matcherOut' = [matcherOut EXCEPT ![w] = <<>>]
    /\ materialized' = [materialized EXCEPT ![w] = <<>>]
    /\ failedAt' = [failedAt EXCEPT ![w] = 0]
    /\ writes' = [writes EXCEPT ![w] = 0]
    /\ UNCHANGED <<cluster, maxConcurrentReconciles, dirty, budget, registered, derived>>

\* ------------------------------------------------------- specification
InitLocals ==
    /\ pc = [w \in Workers |-> "idle"]
    /\ req = [w \in Workers |-> NoKey]
    /\ instance = [w \in Workers |-> NoObject]
    /\ objects = [w \in Workers |-> <<>>]
    /\ idx = [w \in Workers |-> 0]
    /\ result = [w \in Workers |-> EmptyResult]
    /\ err = [w \in Workers |-> NilErr]
    /\ fetch = [w \in Workers |-> "none"]
    /\ gate = [w \in Workers |-> "none"]
    /\ listed = [w \in Workers |-> "none"]
    /\ matcherCalls = [w \in Workers |-> <<>>]
    /\ matcherOut = [w \in Workers |-> <<>>]
    /\ materialized = [w \in Workers |-> <<>>]
    /\ failedAt = [w \in Workers |-> 0]
    /\ writes = [w \in Workers |-> 0]
    /\ queue = <<>>
    /\ dirty = {}
    /\ processing = {}
    /\ backoff = {}
    /\ budget = LimiterBudget
    /\ registered = {}
    /\ derived = {}
    /\ cleanup = {}

\* RunManager has not been entered: no flags parsed, no manager, no probe
InitStartup ==
    /\ mpc = "flags"
    /\ ret = "none"
    /\ ctxDone = FALSE
    /\ mgr = "none"
    /\ bootstrap = "none"
    /\ bootstrapRuns = 0
    /\ webhooks = FALSE
    /\ controllers = 0
    /\ converter = "none"
    /\ cacheSynced = FALSE
    /\ wasCacheSynced = 0
    /\ ppc = [p \in Probes |-> "idle"]
    /\ pres = [p \in Probes |-> "none"]
    /\ waitOk = FALSE
    /\ co = NilOptions
    /\ foreign = [spec |-> 1, resourceVersion |-> 0]
    /\ native = NoMirror
    /\ nwrites = 0
    /\ pending = FALSE

\* the flags left at their defaults
DefaultFlags ==
    [version |-> FALSE, printDefaults |-> FALSE, disableCRDOwnership |-> FALSE,
     watchNss |-> {}, enableWebhooks |-> FALSE, tlsEnable |-> FALSE,
     mtlsEnable |-> FALSE, disableCacheForObjects |-> <<>>]

\* the startup is not followed: RunManager's state stays as at its entry,
\* with the flags at their defaults and a full transport bucket
InitRunning ==
    /\ InitStartup
    /\ flags = DefaultFlags
    /\ tokens = ClientBurst

\* one worker, one key: any VMRule r1 (or none) and any list of VMAlerts
Init ==
    /\ maxConcurrentReconciles = 1
    /\ targets \in [{"r1"} -> TargetObjects \cup {NoObject}]
    /\ vmalerts \in SeqsUpTo(CandidateKinds, MaxCands)
    /\ InitLocals
    /\ InitRunning

\* a step of the controller: the work queue and the workers inside Reconcile
ControllerStep ==
    \/ \E k \in DOMAIN targets : Trigger(k)
    \/ \E k \in DOMAIN targets : BackoffFire(k)
    \/ \E w \in Workers : Dequeue(w)
    \/ \E w \in Workers : GetInstance(w)
    \/ \E w \in Workers : MustThrottleReconcile(w)
    \/ LimiterWindow
    \/ \E w \in Workers : ListObjects(w)
    \/ \E w \in Workers : Loop(w)
    \/ \E w \in Workers : CreateOrUpdateRuleConfigMaps(w)
    \/ \E w \in Workers : Finish(w)

Next == ControllerStep /\ UNCHANGED <<transport, startup, readyz, observed, mirror>>

Spec == Init /\ [][Next]_vars

\* the VMAlert that selects every VMRule
SelectAllVMAlert ==
    [deleting |-> FALSE, parsingError |-> FALSE, selectAll |-> TRUE,
     selector |-> "nil", namespace |-> "ns1"]

\* several workers, several keys: every VMRule present or removed, and a
\* VMAlert that selects them all
InitQueue ==
    /\ maxConcurrentReconciles = MaxWorkers
    /\ targets \in [Keys -> {NoObject,
                             [exists |-> TRUE, deleting |-> FALSE, labels |-> {},
                              namespace |-> "ns1"]}]
    /\ vmalerts = <<SelectAllVMAlert>>
    /\ InitLocals
    /\ InitRunning

SpecQueue == InitQueue /\ [][Next]_vars

\* ------------------------------------------------ fair scheduling
\* what a step of the controller leaves alone
Rest == UNCHANGED <<transport, startup, readyz, observed, mirror>>

\* a worker goroutine that is inside Reconcile keeps running
WorkerFairness(w) ==
    /\ WF_vars(Dequeue(w) /\ Rest)
    /\ WF_vars(GetInstance(w) /\ Rest)
    /\ WF_vars(MustThrottleReconcile(w) /\ Rest)
    /\ WF_vars(ListObjects(w) /\ Rest)
    /\ WF_vars(Loop(w) /\ Rest)
    /\ WF_vars(CreateOrUpdateRuleConfigMaps(w) /\ Rest)
    /\ WF_vars(Finish(w) /\ Rest)
    \* the Get of an object that is in the cluster does not fail for ever
    /\ \A k \in Keys :
          SF_vars(GetInstance(w) /\ req[w] = k /\ fetch'[w] = "ok" /\ Rest)

\* worker w is at the admission gate for key k
AtGate(k) == \E w \in Workers : pc[w] = "gate" /\ req[w] = k

\* the gate has admitted the attempt for key k and the pass has ended
FullPass(k) == \E w \in Workers : pc[w] = "done" /\ req[w] = k /\ gate[w] = "admitted"

\* the gate has throttled the attempt for key k
ThrottledPass(k) == \E w \in Workers : req[w] = k /\ gate[w] = "throttled"

\* events and resync ticks keep coming for every key, the limiter's window
\* keeps ending, and the limiter does not refuse a key for ever that keeps
\* asking
Fairness ==
    /\ \A w \in Workers : WorkerFairness(w)
    /\ \A k \in Keys : WF_vars(Trigger(k) /\ Rest)
    /\ WF_vars(LimiterWindow /\ Rest)
    /\ \A k \in Keys : ([]<>AtGate(k)) => ([]<>FullPass(k))

\* one worker, two VMRules that stay in the cluster (one of them with a
\* deletion marker) and a VMAlert that selects them all
InitLive ==
    /\ maxConcurrentReconciles = 1
    /\ targets = [k \in Keys |->
                    [exists |-> TRUE, deleting |-> (k = "r2"), labels |-> {},
                     namespace |-> "ns1"]]
    /\ vmalerts = <<SelectAllVMAlert>>
    /\ InitLocals
    /\ InitRunning

SpecLive == InitLive /\ [][Next]_vars /\ Fairness

CleanupCalls ==
    {<<req[w], materialized'[w][Len(materialized'[w])]>> :
        w \in {v \in Workers : /\ Len(materialized'[v]) > Len(materialized[v])
                               /\ instance[v].deleting}}

\* a step of the controller, with its cleanup calls recorded
DeletionStep ==
    /\ ControllerStep
    /\ cleanup' = cleanup \cup CleanupCalls
    /\ UNCHANGED <<transport, startup, readyz, mirror>>

\* the control plane sets the deletion marker of VMRule k; the watch
\* delivers the update
MarkDeleting(k) ==
    /\ targets[k].exists
    /\ ~targets[k].deleting
    /\ targets' = [targets EXCEPT ![k].deleting = TRUE]
    /\ QueueAdd(k)
    /\ UNCHANGED <<vmalerts, processing, backoff>>
    /\ UNCHANGED <<maxConcurrentReconciles, budget, registered, derived>>
    /\ UNCHANGED <<locals, history, transport, startup, readyz, observed, mirror>>

\* the controller has nothing left to do for key k: no event is queued, no
\* pass is running and no retry is scheduled
Settled(k) == k \notin dirty /\ k \notin processing /\ k \notin backoff

\* the control plane removes the deleting VMRule k; Reconcile sets no
\* finalizer and asks for no retry that would hold the object, so the
\* removal waits at most until the controller has settled the key; the
\* watch delivers the deletion
RemoveTarget(k) ==
    /\ targets[k].exists
    /\ targets[k].deleting
    /\ Settled(k)
    /\ targets' = [targets EXCEPT ![k] = NoObject]
    /\ QueueAdd(k)
    /\ UNCHANGED <<vmalerts, processing, backoff>>
    /\ UNCHANGED <<maxConcurrentReconciles, budget, registered, derived>>
    /\ UNCHANGED <<locals, history, transport, startup, readyz, observed, mirror>>

\* the VMAlert of the spec's scenario: selector team=x, no select-all
TeamVMAlert ==
    [deleting |-> FALSE, parsingError |-> FALSE, selectAll |-> FALSE,
     selector |-> "team=x", namespace |-> "ns1"]

\* VMRule r1 without the label team=x and without a deletion marker, and
\* up to MaxCands VMAlerts that select by team=x or select all
InitDeletion ==
    /\ maxConcurrentReconciles = 1
    /\ targets = [k \in {"r1"} |->
                    [exists |-> TRUE, deleting |-> FALSE, labels |-> {},
                     namespace |-> "ns1"]]
    /\ vmalerts \in SeqsUpTo({TeamVMAlert, SelectAllVMAlert}, MaxCands) \ {<<>>}
    /\ InitLocals
    /\ InitRunning

NextDeletion ==
    \/ DeletionStep
    \/ \E k \in DOMAIN targets : MarkDeleting(k)
    \/ \E k \in DOMAIN targets : RemoveTarget(k)

SpecDeletion == InitDeletion /\ [][NextDeletion]_vars

\* the VMAlerts a pass for a deleting target has to clean up
EligibleVMAlerts == {i \in 1..Len(vmalerts) : ~SkipCandidate(vmalerts[i])}

\* C12: cleanup on deletion is never lost: a VMRule that carried a deletion
\* marker is not gone from the cluster before the materializer was invoked,
\* with the deleting target, for every eligible VMAlert, whether or not
\* attempts for it were throttled.
C12_CleanupNeverLost ==
    \A k \in DOMAIN targets :
        ~targets[k].exists =>
            \A i \in EligibleVMAlerts : <<k, i>> \in cleanup

\* ------------------------------------------------------- RunManager
\* the reconcilers RunManager registers, in the order of its
\* SetupWithManager calls
Dispatchers ==
    <<"VMAgent", "VMAlert", "VMAlertmanager", "VMPodScrape", "VMRule",
      "VMServiceScrape", "VMSingle", "VLogs", "VMCluster", "VMProbe",
      "VMNodeScrape", "VMStaticScrape", "VMScrapeConfig", "VMAuth", "VMUser",
      "VMAlertmanagerConfig">>

\* the names -controller.disableCacheFor accepts, each with its object type
cacheClientObjectsByName ==
    [secret |-> "corev1.Secret", configmap |-> "corev1.ConfigMap",
     namespace |-> "corev1.Namespace", pod |-> "corev1.Pod",
     deployment |-> "appsv1.Deployment", statefulset |-> "appsv1.StatefulSet"]

\* the command lines the model starts RunManager with
AllFlags ==
    [version : BOOLEAN, printDefaults : BOOLEAN, disableCRDOwnership : BOOLEAN,
     watchNss : {{}, {"ns1"}}, enableWebhooks : BOOLEAN, tlsEnable : BOOLEAN,
     mtlsEnable : BOOLEAN,
     disableCacheForObjects : {<<>>, <<"pod">>, <<"bogus">>}]

\* RunManager touches neither a reconciler's state nor the transport bucket
\* it has handed to the client
ManagerFrame == UNCHANGED <<reconcileVars, transport, observed, mirror>>

\* RunManager ends: a return value, a panic or os.Exit
Return(e) == ret' = e /\ mpc' = "returned"

\* a step of RunManager that either fails, and returns the error, or goes
\* on to position next
Fallible(next) == Return("error") \/ (mpc' = next /\ ret' = ret)

\* managerFlags.Parse, -version and -printDefaults
ParseFlags ==
    /\ mpc = "flags"
    /\ IF flags.version THEN Return("exit0")
       ELSE IF flags.printDefaults THEN Return("nil") \/ Return("exit1")
       ELSE mpc' = "cacheopts" /\ ret' = ret
    /\ UNCHANGED <<flags, co, ctxDone, mgr, bootstrap, bootstrapRuns, webhooks,
                   controllers, converter, readyz>>
    /\ ManagerFrame

\* a string is a sequence of atoms: an atom is a comma or a run of letters,
\* and two runs that follow each other make up one longer name
Comma == ","

\* strings.Split(s, ","): the fields between the commas, each a sequence of
\* letter runs; a string without a comma is one field
RECURSIVE Split(_)
Split(s) ==
    IF s = <<>> THEN << <<>> >>
    ELSE LET rest == Split(Tail(s)) IN
         IF Head(s) = Comma THEN << <<>> >> \o rest
         ELSE << <<Head(s)>> \o Head(rest) >> \o Tail(rest)

\* the value of cacheClientObjectsByName[object]; nil without an entry
Lookup(object) ==
    IF Len(object) = 1 /\ object[1] \in DOMAIN cacheClientObjectsByName
    THEN cacheClientObjectsByName[object[1]]
    ELSE "nil"

\* a lookup that lets an empty element pass
Supported_orEmpty(object) ==
    \/ object = <<>>
    \/ Len(object) = 1 /\ object[1] \in DOMAIN cacheClientObjectsByName

\* o, ok := cacheClientObjectsByName[object]: the element is one of the names
Supported(object) == Len(object) = 1 /\ object[1] \in DOMAIN cacheClientObjectsByName

\* the range loop of getClientCacheOptions over the elements
RECURSIVE DisableFor(_, _)
DisableFor(names, acc) ==
    IF names = <<>> THEN [co |-> [nil |-> FALSE, DisableFor |-> acc], err |-> FALSE]
    ELSE IF ~Supported(Head(names)) THEN [co |-> NilOptions, err |-> TRUE]
    ELSE DisableFor(Tail(names), Append(acc, Lookup(Head(names))))

\* getClientCacheOptions: the objects the client cache is disabled for, or
\* an error for a name that is not supported
getClientCacheOptions(disabledCacheObjects) ==
    IF Len(disabledCacheObjects) > 0
    THEN DisableFor(Split(disabledCacheObjects), <<>>)
    ELSE [co |-> [nil |-> FALSE, DisableFor |-> <<>>], err |-> FALSE]

\* co, err := getClientCacheOptions(*disableCacheForObjects)
GetClientCacheOptions ==
    /\ mpc = "cacheopts"
    /\ LET out == getClientCacheOptions(flags.disableCacheForObjects) IN
        /\ co' = out.co
        /\ IF out.err
           THEN Return("error")
           ELSE mpc' = "newmanager" /\ ret' = ret
    /\ UNCHANGED <<flags, ctxDone, mgr, bootstrap, bootstrapRuns, webhooks,
                   controllers, converter, readyz>>
    /\ ManagerFrame

\* configureTLS without the test of -tls.enable
configureTLS_withoutCheck(f) ==
    IF f.mtlsEnable
    THEN [panic |-> FALSE, opts |-> <<"RequireAndVerifyClientCert">>]
    ELSE [panic |-> FALSE, opts |-> <<>>]

\* configureTLS: no option without -mtls.enable, a panic when -mtls.enable is
\* set without -tls.enable, else the option that asks for client certificates
configureTLS(f) ==
    IF f.mtlsEnable
    THEN IF ~f.tlsEnable
         THEN [panic |-> TRUE, opts |-> <<>>]
         ELSE [panic |-> FALSE, opts |-> <<"RequireAndVerifyClientCert">>]
    ELSE [panic |-> FALSE, opts |-> <<>>]

\* ctrl.NewManager, with configureTLS() evaluated for its options
NewManager ==
    /\ mpc = "newmanager"
    /\ IF configureTLS(flags).panic
       THEN Return("panic") /\ mgr' = mgr
       ELSE \/ Return("error") /\ mgr' = mgr
            \/ mgr' = "created" /\ mpc' = "readyz" /\ ret' = ret
    /\ UNCHANGED <<flags, co, ctxDone, bootstrap, bootstrapRuns, webhooks,
                   controllers, converter, readyz>>
    /\ ManagerFrame

\* mgr.AddReadyzCheck("ready", ...)
AddReadyzCheck ==
    /\ mpc = "readyz"
    /\ Fallible("healthz")
    /\ UNCHANGED <<flags, co, ctxDone, mgr, bootstrap, bootstrapRuns, webhooks,
                   controllers, converter, readyz>>
    /\ ManagerFrame

\* mgr.AddHealthzCheck("health", ...)
AddHealthzCheck ==
    /\ mpc = "healthz"
    /\ Fallible("ownership")
    /\ UNCHANGED <<flags, co, ctxDone, mgr, bootstrap, bootstrapRuns, webhooks,
                   controllers, converter, readyz>>
    /\ ManagerFrame

\* a bootstrap condition that forgets the watch namespaces
OwnsCRDs_ignoresWatchNss(f) == ~f.disableCRDOwnership

\* if !*disableCRDOwnership && len(watchNss) == 0
OwnsCRDs(f) == ~f.disableCRDOwnership /\ f.watchNss = {}

\* an ownership bootstrap that is started in the background: RunManager
\* goes on while vmv1beta1.Init runs
StartInit_inBackground ==
    /\ bootstrap' = "running"
    /\ bootstrapRuns' = bootstrapRuns + 1
    /\ mpc' = "webhooks"
    /\ ret' = ret

\* the call of vmv1beta1.Init(ctx, initC): RunManager waits inside it
StartInit ==
    /\ bootstrap' = "running"
    /\ bootstrapRuns' = bootstrapRuns + 1
    /\ mpc' = "init"
    /\ ret' = ret

\* the ownership bootstrap: skipped, or client.New and then vmv1beta1.Init
OwnershipBootstrap ==
    /\ mpc = "ownership"
    /\ IF OwnsCRDs(flags)
       THEN \/ Return("error") /\ UNCHANGED <<bootstrap, bootstrapRuns>>
            \/ StartInit
       ELSE mpc' = "webhooks" /\ UNCHANGED <<ret, bootstrap, bootstrapRuns>>
    /\ UNCHANGED <<flags, co, ctxDone, mgr, webhooks, controllers, converter, readyz>>
    /\ ManagerFrame

\* a failure of vmv1beta1.Init that is only logged
InitFailed_ignored ==
    /\ bootstrap' = "failed"
    /\ mpc' = IF mpc = "init" THEN "webhooks" ELSE mpc
    /\ ret' = ret

\* if err := vmv1beta1.Init(ctx, initC); err != nil { return err }
InitFailed ==
    /\ bootstrap' = "failed"
    /\ Return("error")

\* vmv1beta1.Init returns
InitReturns ==
    /\ bootstrap = "running"
    /\ ret = "none"
    /\ \/ InitFailed
       \/ /\ bootstrap' = "done"
          /\ mpc' = IF mpc = "init" THEN "webhooks" ELSE mpc
          /\ ret' = ret
    /\ UNCHANGED <<flags, co, ctxDone, mgr, bootstrapRuns, webhooks, controllers,
                   converter, readyz>>
    /\ ManagerFrame

\* a failure of addWebhooks that is only logged: RunManager goes on to
\* register the dispatchers
AddWebhooks_errorLogged ==
    /\ mpc = "webhooks"
    /\ IF flags.enableWebhooks
       THEN \/ webhooks' = webhooks /\ mpc' = "controllers" /\ ret' = ret
            \/ webhooks' = TRUE /\ mpc' = "controllers" /\ ret' = ret
       ELSE mpc' = "controllers" /\ UNCHANGED <<ret, webhooks>>
    /\ UNCHANGED <<flags, co, ctxDone, mgr, bootstrap, bootstrapRuns, controllers,
                   converter, readyz>>
    /\ ManagerFrame

\* if *enableWebhooks { addWebhooks(mgr) }
AddWebhooks ==
    /\ mpc = "webhooks"
    /\ IF flags.enableWebhooks
       THEN \/ Return("error") /\ webhooks' = webhooks
            \/ webhooks' = TRUE /\ mpc' = "controllers" /\ ret' = ret
       ELSE mpc' = "controllers" /\ UNCHANGED <<ret, webhooks>>
    /\ UNCHANGED <<flags, co, ctxDone, mgr, bootstrap, bootstrapRuns, controllers,
                   converter, readyz>>
    /\ ManagerFrame

\* the next SetupWithManager call, for Dispatchers[controllers + 1]
SetupWithManager ==
    /\ mpc = "controllers"
    /\ controllers < Len(Dispatchers)
    /\ \/ Return("error") /\ controllers' = controllers
       \/ /\ controllers' = controllers + 1
          /\ mpc' = IF controllers' = Len(Dispatchers) THEN "baseclient" ELSE mpc
          /\ ret' = ret
    /\ UNCHANGED <<flags, co, ctxDone, mgr, bootstrap, bootstrapRuns, webhooks,
                   converter, readyz>>
    /\ ManagerFrame

\* kubernetes.NewForConfig
NewForConfig ==
    /\ mpc = "baseclient"
    /\ Fallible("serverversion")
    /\ UNCHANGED <<flags, co, ctxDone, mgr, bootstrap, bootstrapRuns, webhooks,
                   controllers, converter, readyz>>
    /\ ManagerFrame

\* baseClient.ServerVersion; a version that does not parse is only logged
ServerVersion ==
    /\ mpc = "serverversion"
    /\ Fallible("watchclient")
    /\ UNCHANGED <<flags, co, ctxDone, mgr, bootstrap, bootstrapRuns, webhooks,
                   controllers, converter, readyz>>
    /\ ManagerFrame

\* client.NewWithWatch
NewWithWatch ==
    /\ mpc = "watchclient"
    /\ Fallible("converter")
    /\ UNCHANGED <<flags, co, ctxDone, mgr, bootstrap, bootstrapRuns, webhooks,
                   controllers, converter, readyz>>
    /\ ManagerFrame

\* vmcontroller.NewConverterController
NewConverterController ==
    /\ mpc = "converter"
    /\ \/ Return("error") /\ converter' = converter
       \/ converter' = "created" /\ mpc' = "addrunnable" /\ ret' = ret
    /\ UNCHANGED <<flags, co, ctxDone, mgr, bootstrap, bootstrapRuns, webhooks,
                   controllers, readyz>>
    /\ ManagerFrame

\* mgr.Add(converterController)
MgrAdd ==
    /\ mpc = "addrunnable"
    /\ \/ Return("error") /\ converter' = converter
       \/ converter' = "added" /\ mpc' = "start" /\ ret' = ret
    /\ UNCHANGED <<flags, co, ctxDone, mgr, bootstrap, bootstrapRuns, webhooks,
                   controllers, readyz>>
    /\ ManagerFrame

\* mgr.Start(ctx) is entered: it fails at once, or the manager runs and
\* RunManager waits inside the call
MgrStart ==
    /\ mpc = "start"
    /\ \/ Return("error") /\ mgr' = mgr
       \/ mgr' = "started" /\ mpc' = "running" /\ ret' = ret
    /\ UNCHANGED <<flags, co, ctxDone, bootstrap, bootstrapRuns, webhooks,
                   controllers, converter, readyz>>
    /\ ManagerFrame

\* the started manager starts the runnables that were added to it
ConverterStart ==
    /\ mgr = "started"
    /\ converter = "added"
    /\ ~ctxDone
    /\ converter' = "running"
    /\ UNCHANGED <<flags, co, mpc, ret, ctxDone, mgr, bootstrap, bootstrapRuns,
                   webhooks, controllers, readyz>>
    /\ ManagerFrame

\* the informer caches of the started manager get synced
CacheSync ==
    /\ mgr = "started"
    /\ ~cacheSynced
    /\ cacheSynced' = TRUE
    /\ UNCHANGED <<startup, wasCacheSynced, ppc, pres, waitOk>>
    /\ ManagerFrame

\* the process-wide shutdown signal: the context of RunManager is cancelled
Cancel ==
    /\ ~ctxDone
    /\ ret = "none"
    /\ ctxDone' = TRUE
    /\ UNCHANGED <<flags, co, mpc, ret, mgr, bootstrap, bootstrapRuns, webhooks,
                   controllers, converter, readyz>>
    /\ ManagerFrame

\* the converter observes the cancelled context and returns
ConverterStop ==
    /\ ctxDone
    /\ mgr = "started"
    /\ converter \in {"added", "running"}
    /\ converter' = "stopped"

\* the converter loop ends
ConverterEnds ==
    /\ ConverterStop
    /\ UNCHANGED <<flags, co, mpc, ret, ctxDone, mgr, bootstrap, bootstrapRuns,
                   webhooks, controllers, readyz>>
    /\ ManagerFrame

\* the running manager fails: mgr.Start returns the error
MgrFails ==
    /\ mpc = "running"
    /\ ~ctxDone
    /\ mgr' = "stopped"
    /\ converter' = "stopped"
    /\ Return("error")
    /\ UNCHANGED <<flags, co, ctxDone, bootstrap, bootstrapRuns, webhooks,
                   controllers, readyz>>
    /\ ManagerFrame

\* a RunManager that reports the graceful stop as an error
GracefulStop_asError == Return("error")

\* setupLog.Info("gracefully stopped"); return nil
GracefulStop == Return("nil")

\* the context is cancelled and the runnables have ended: mgr.Start returns
\* nil and so does RunManager
MgrStops ==
    /\ mpc = "running"
    /\ ctxDone
    /\ converter = "stopped"
    /\ mgr' = "stopped"
    /\ GracefulStop
    /\ UNCHANGED <<flags, co, ctxDone, bootstrap, bootstrapRuns, webhooks,
                   controllers, converter, readyz>>
    /\ ManagerFrame

\* ------------------------------------------------------- readiness check
\* a load whose fast path is never taken: the test is wasSynced > 1
ProbeLoad_noFastPath(p) ==
    /\ mgr = "started"
    /\ ppc[p] = "idle"
    /\ IF wasCacheSynced > 1
       THEN /\ ppc' = [ppc EXCEPT ![p] = "done"]
            /\ pres' = [pres EXCEPT ![p] = "ready"]
       ELSE /\ ppc' = [ppc EXCEPT ![p] = "wait"]
            /\ pres' = pres
    /\ UNCHANGED <<startup, cacheSynced, wasCacheSynced, waitOk>>
    /\ ManagerFrame

\* wasSynced := atomic.LoadUint32(&wasCacheSynced); the fast path
ProbeLoad(p) ==
    /\ mgr = "started"
    /\ ppc[p] = "idle"
    /\ IF wasCacheSynced > 0
       THEN /\ ppc' = [ppc EXCEPT ![p] = "done"]
            /\ pres' = [pres EXCEPT ![p] = "ready"]
       ELSE /\ ppc' = [ppc EXCEPT ![p] = "wait"]
            /\ pres' = pres
    /\ UNCHANGED <<startup, cacheSynced, wasCacheSynced, waitOk>>
    /\ ManagerFrame

\* a timed out wait that sets the flag all the same
WaitTimedOut_setsFlag(p) ==
    /\ wasCacheSynced' = 1
    /\ pres' = [pres EXCEPT ![p] = "notready"]
    /\ waitOk' = waitOk

\* the wait ended with the timeout: the check returns an error
WaitTimedOut(p) ==
    /\ wasCacheSynced' = wasCacheSynced
    /\ pres' = [pres EXCEPT ![p] = "notready"]
    /\ waitOk' = waitOk

\* ok := mgr.GetCache().WaitForCacheSync(ctx), with the timeout context
WaitForCacheSync(p) ==
    /\ ppc[p] = "wait"
    /\ IF cacheSynced
       THEN /\ wasCacheSynced' = 1
            /\ pres' = [pres EXCEPT ![p] = "ready"]
            /\ waitOk' = TRUE
       ELSE WaitTimedOut(p)
    /\ ppc' = [ppc EXCEPT ![p] = "done"]
    /\ UNCHANGED <<startup, cacheSynced>>
    /\ ManagerFrame

\* the probe request is answered
ProbeReturn(p) ==
    /\ ppc[p] = "done"
    /\ ppc' = [ppc EXCEPT ![p] = "idle"]
    /\ pres' = [pres EXCEPT ![p] = "none"]
    /\ UNCHANGED <<startup, cacheSynced, wasCacheSynced, waitOk>>
    /\ ManagerFrame

\* RunManager is entered with any command line; no reconciler runs yet
InitManager ==
    /\ maxConcurrentReconciles = 1
    /\ targets = [k \in {"r1"} |-> NoObject]
    /\ vmalerts = <<>>
    /\ InitLocals
    /\ InitStartup
    /\ flags \in AllFlags
    /\ tokens = ClientBurst

NextManager ==
    \/ ParseFlags
    \/ GetClientCacheOptions
    \/ NewManager
    \/ AddReadyzCheck
    \/ AddHealthzCheck
    \/ OwnershipBootstrap
    \/ InitReturns
    \/ AddWebhooks
    \/ SetupWithManager
    \/ NewForConfig
    \/ ServerVersion
    \/ NewWithWatch
    \/ NewConverterController
    \/ MgrAdd
    \/ MgrStart
    \/ ConverterStart
    \/ CacheSync
    \/ Cancel
    \/ ConverterEnds
    \/ MgrFails
    \/ MgrStops
    \/ \E p \in Probes : ProbeLoad(p)
    \/ \E p \in Probes : WaitForCacheSync(p)
    \/ \E p \in Probes : ProbeReturn(p)

SpecManager == InitManager /\ [][NextManager]_vars

\* the converter observes the cancellation promptly and the manager, which
\* waits for its runnables, then returns from Start
SpecManagerLive ==
    /\ InitManager
    /\ [][NextManager]_vars
    /\ WF_vars(ConverterEnds)
    /\ WF_vars(MgrStops)

\* the atoms a value of -controller.disableCacheFor is made of
Atoms == {"pod", "secret", "namespace", "bogus", Comma}

\* RunManager is entered with any value of -controller.disableCacheFor and
\* the other flags at their defaults
InitCacheOptions ==
    /\ maxConcurrentReconciles = 1
    /\ targets = [k \in {"r1"} |-> NoObject]
    /\ vmalerts = <<>>
    /\ InitLocals
    /\ InitStartup
    /\ flags \in {[DefaultFlags EXCEPT !.disableCacheForObjects = s] :
                    s \in SeqsUpTo(Atoms, MaxLen)}
    /\ tokens = ClientBurst

SpecCacheOptions == InitCacheOptions /\ [][NextManager]_vars

\* ------------------------------------------------ Schema Converter Loop
\* the values the spec of the foreign object f1 takes
ForeignSpecs == 1..MaxSpecs

\* the native object for a foreign one: same name, the translated spec; what
\* the cluster keeps of the foreign object's metadata is not carried over
translate(f) == [exists |-> TRUE, name |-> "f1", spec |-> f.spec]

\* the spec of f1 is changed in the cluster; the watch delivers the update
ForeignSpecChange ==
    /\ \E v \in ForeignSpecs \ {foreign.spec} :
        foreign' = [spec |-> v, resourceVersion |-> 1 - foreign.resourceVersion]
    /\ pending' = TRUE
    /\ UNCHANGED <<native, nwrites>>

\* f1 is updated without a change of its spec; the watch delivers the update
ForeignTouch ==
    /\ foreign' = [foreign EXCEPT !.resourceVersion = 1 - @]
    /\ pending' = TRUE
    /\ UNCHANGED <<native, nwrites>>

\* a resync tick hands f1 to the converter as it is
Resync ==
    /\ ~pending
    /\ pending' = TRUE
    /\ UNCHANGED <<foreign, native, nwrites>>

\* an upsert that writes without comparing
Upsert_always(desired) ==
    /\ native' = desired
    /\ nwrites' = nwrites + 1

\* the upsert of the mirror: a write only if the mirror differs
Upsert(desired) ==
    IF native = desired
    THEN UNCHANGED <<native, nwrites>>
    ELSE /\ native' = desired
         /\ nwrites' = nwrites + 1

\* the running converter handles the observation of f1
ConverterSync ==
    /\ converter = "running"
    /\ pending
    /\ nwrites < MaxWrites
    /\ Upsert(translate(foreign))
    /\ pending' = FALSE
    /\ UNCHANGED foreign

\* RunManager is inside mgr.Start of a default deployment: the bootstrap is
\* done, every dispatcher is registered and the converter runs
AtConverterRunning ==
    /\ flags = DefaultFlags
    /\ co = [nil |-> FALSE, DisableFor |-> <<>>]
    /\ mpc = "running"
    /\ ret = "none"
    /\ ctxDone = FALSE
    /\ mgr = "started"
    /\ bootstrap = "done"
    /\ bootstrapRuns = 1
    /\ webhooks = FALSE
    /\ controllers = Len(Dispatchers)
    /\ converter = "running"
    /\ cacheSynced = TRUE
    /\ wasCacheSynced = 0
    /\ ppc = [p \in Probes |-> "idle"]
    /\ pres = [p \in Probes |-> "none"]
    /\ waitOk = FALSE

InitConverter ==
    /\ maxConcurrentReconciles = 1
    /\ targets = [k \in {"r1"} |-> NoObject]
    /\ vmalerts = <<>>
    /\ InitLocals
    /\ tokens = ClientBurst
    /\ AtConverterRunning
    /\ foreign = [spec |-> 1, resourceVersion |-> 0]
    /\ native = NoMirror
    /\ nwrites = 0
    /\ pending = TRUE

NextConverter ==
    /\ \/ ForeignSpecChange
       \/ ForeignTouch
       \/ Resync
       \/ ConverterSync
    /\ UNCHANGED <<reconcileVars, transport, startup, readyz, observed>>

SpecConverter == InitConverter /\ [][NextConverter]_vars

\* the converter handles an observation of f1 in this step
Handles == pending /\ ~pending'

\* C22: the converter's write to the mirror n1 is an idempotent upsert: when
\* it handles an observation of f1 whose translation is what n1 already
\* holds, it writes nothing; when the spec of f1 differs from what n1 holds,
\* it makes exactly one write, after which n1 holds the spec of f1; nothing
\* else writes n1.
C22_ConverterUpsertIsIdempotent ==
    /\ [][Handles =>
            IF native.exists /\ native.spec = foreign.spec
            THEN nwrites' = nwrites /\ native' = native
            ELSE /\ nwrites' = nwrites + 1
                 /\ native'.exists
                 /\ native'.spec = foreign.spec
                 /\ native'.name = "f1"]_vars
    /\ [][(nwrites' # nwrites \/ native' # native) => Handles]_vars

\* f1 was translated once, then updated without a net change of its spec and
\* observed again: one write in all
C22_Witness ==
    /\ nwrites = 1
    /\ native.exists
    /\ native.spec = foreign.spec
    /\ foreign = [spec |-> 1, resourceVersion |-> 1]
    /\ ~pending

\* ------------------------------------------------ the two throttles
\* several workers and two VMRules in the cluster: r1 of any shape, r2
\* without label and deletion marker in the other namespace; one VMAlert
\* that selects them all
InitGate ==
    /\ maxConcurrentReconciles = MaxWorkers
    /\ targets \in {t \in [Keys -> TargetObjects] :
                      t["r2"] = [exists |-> TRUE, deleting |-> FALSE,
                                 labels |-> {}, namespace |-> "ns2"]}
    /\ vmalerts = <<SelectAllVMAlert>>
    /\ InitLocals
    /\ InitRunning

SpecGate == InitGate /\ [][Next]_vars

\* a client without a rate limiter: calls go out without a token
TakeToken_unlimited == tokens' = tokens

\* config.RateLimiter: an outbound API call waits for a token of the bucket
TakeToken == tokens > 0 /\ tokens' = tokens - 1

\* the bucket of flowcontrol.NewTokenBucketRateLimiter refills at clientQPS
RefillToken ==
    /\ tokens < ClientBurst
    /\ tokens' = tokens + 1
    /\ UNCHANGED <<reconcileVars, startup, readyz, observed, mirror>>

\* a read of Reconcile: served by the watch cache, or an API call
ClientRead(w) ==
    /\ GetInstance(w) \/ ListObjects(w)
    /\ UNCHANGED tokens \/ TakeToken

\* the write calls of the materializer are API calls
ClientWrite(w) ==
    /\ CreateOrUpdateRuleConfigMaps(w)
    /\ TakeToken

\* the steps of the controller that call no API
LocalStep ==
    \/ \E k \in DOMAIN targets : Trigger(k)
    \/ \E k \in DOMAIN targets : BackoffFire(k)
    \/ \E w \in Workers : Dequeue(w)
    \/ \E w \in Workers : MustThrottleReconcile(w)
    \/ LimiterWindow
    \/ \E w \in Workers : Loop(w)
    \/ \E w \in Workers : Finish(w)

\* VMRule r1, present or removed, and up to MaxCands VMAlerts that select by
\* team=x or select all
InitTransport ==
    /\ maxConcurrentReconciles = 1
    /\ targets \in [{"r1"} -> {NoObject,
                               [exists |-> TRUE, deleting |-> FALSE,
                                labels |-> {"team=x"}, namespace |-> "ns1"]}]
    /\ vmalerts \in SeqsUpTo({TeamVMAlert, SelectAllVMAlert}, MaxCands)
    /\ InitLocals
    /\ InitRunning

NextTransport ==
    \/ /\ \/ LocalStep /\ UNCHANGED tokens
          \/ \E w \in Workers : ClientRead(w)
          \/ \E w \in Workers : ClientWrite(w)
       /\ UNCHANGED <<startup, readyz, observed, mirror>>
    \/ RefillToken

SpecTransport == InitTransport /\ [][NextTransport]_vars

\* worker w takes the decision of the admission gate in this step
Decides(w) == gate[w] = "none" /\ gate'[w] # "none"

\* C16: the decision of the admission gate is a function of the limiter's
\* state alone: whatever the key, the labels and the deletion marker of the
\* fetched VMRule, the attempt is throttled exactly when the limiter has no
\* budget left; the decision is taken after the Get and before the list, the
\* matcher and the materializer, and it leaves the fetched VMRule alone.
C16_GateIgnoresTheResource ==
    [][\A w \in Workers :
        Decides(w) =>
            /\ (gate'[w] = "throttled") <=> (budget = 0)
            /\ fetch[w] = "ok"
            /\ listed[w] = "none"
            /\ objects[w] = <<>>
            /\ matcherCalls[w] = <<>>
            /\ materialized[w] = <<>>
            /\ instance'[w] = instance[w]]_vars

\* two attempts for VMRules that differ in key, namespace, labels and
\* deletion marker have met the limiter without budget and are both throttled
C16_Witness ==
    \E v, w \in Workers :
        /\ gate[v] = "throttled"
        /\ gate[w] = "throttled"
        /\ req[v] = "r1"
        /\ req[w] = "r2"
        /\ instance[v].deleting
        /\ instance[v].labels = {"team=x"}
        /\ instance[v].namespace = "ns1"
        /\ instance[w] = targets["r2"]

\* worker w calls the materializer in this step
Materializes(w) == Len(materialized'[w]) > Len(materialized[w])

\* C20: the admission gate and the transport bucket are separate throttles:
\* the gate decides from the limiter's budget alone and leaves the bucket's
\* tokens alone, a change of the tokens leaves the limiter's budget alone,
\* every materializer call takes a token from the bucket and is made only by
\* an attempt the gate admitted, and an attempt that the gate throttles makes
\* no call after the gate.
C20_TwoIndependentThrottles ==
    /\ [][\A w \in Workers :
            Decides(w) => /\ tokens' = tokens
                          /\ (gate'[w] = "throttled") <=> (budget = 0)]_vars
    /\ [][tokens' # tokens => budget' = budget]_vars
    /\ [][\A w \in Workers :
            Materializes(w) => /\ tokens > 0
                               /\ tokens' = tokens - 1
                               /\ gate[w] = "admitted"]_vars
    /\ [][\A w \in Workers :
            gate[w] = "throttled" => tokens' >= tokens]_vars

\* an admitted attempt waits at the materializer for a token while the
\* limiter, too, is out of budget: the Get and the list of the attempt took
\* the tokens, its admission took the budget
C20_Witness ==
    \E w \in Workers :
        /\ pc[w] = "materialize"
        /\ gate[w] = "admitted"
        /\ listed[w] = "ok"
        /\ tokens = 0
        /\ budget = 0

\* ------------------------------------------------ what a pass changes
\* worker w issues a write call in this step
Writes(w) == writes'[w] > writes[w]

\* C17: no step of the controller changes a VMRule or a VMAlert of the
\* shared cache; write calls are issued, and derived objects change, only by
\* the materializer call of an admitted pass for the item the loop is at,
\* which is an item the loop did not skip and the matcher did not reject; a
\* pass that ends at the Get, at the gate or at the list has written nothing.
C17_ReconcileOnlyWritesThroughMaterializer ==
    /\ [][targets' = targets /\ vmalerts' = vmalerts]_vars
    /\ [][\A w \in Workers :
            Writes(w) =>
                /\ pc[w] = "materialize"
                /\ gate[w] = "admitted"
                /\ listed[w] = "ok"
                /\ writes'[w] = writes[w] + 1
                /\ ~SkipCandidate(objects[w][idx[w]])
                /\ NeedsMatch(instance[w], objects[w][idx[w]]) =>
                     isSelectorsMatchesTargetCRD(instance[w], objects[w][idx[w]]) = <<TRUE, FALSE>>]_vars
    /\ [][derived' # derived =>
            \E w \in Workers : Writes(w) /\ derived' = derived \cup {idx[w]}]_vars
    /\ [](\A w \in Workers :
            (fetch[w] \in {"notfound", "error"} \/ gate[w] = "throttled"
                \/ listed[w] = "error") => writes[w] = 0)

\* a pass for a deleting VMRule of namespace ns2 has written for two
\* VMAlerts, and the VMRule in the cache is still what the Get returned
C17_Witness ==
    \E w \in Workers :
        /\ pc[w] = "done"
        /\ writes[w] = 2
        /\ instance[w] = targets[req[w]]
        /\ instance[w].deleting
        /\ instance[w].namespace = "ns2"
        /\ objects[w] = vmalerts

\* ------------------------------------------------ properties of RunManager
\* the command line asks for the ownership bootstrap
BootstrapDue == ~flags.disableCRDOwnership /\ flags.watchNss = {}

\* RunManager has got past the ownership bootstrap
PastBootstrap ==
    mpc \in {"webhooks", "controllers", "baseclient", "serverversion",
             "watchclient", "converter", "addrunnable", "start", "running"}

\* C13: no SetupWithManager call is made while the ownership bootstrap is
\* due but not started, or is running; the bootstrap is started at most
\* once per start of RunManager.
C13_BootstrapBeforeDispatchers ==
    /\ (BootstrapDue /\ bootstrap = "none") => controllers = 0
    /\ bootstrap = "running" => controllers = 0
    /\ controllers > 0 => (BootstrapDue => bootstrap = "done")
    /\ bootstrapRuns <= 1

\* the bootstrap has run to its end and every dispatcher is registered
C13_Witness ==
    /\ bootstrap = "done"
    /\ bootstrapRuns = 1
    /\ controllers = Len(Dispatchers)

\* C14: the ownership bootstrap is executed if and only if CRD ownership is
\* not disabled and no watch namespace is configured; when it is skipped
\* RunManager goes on to register the dispatchers.
C14_BootstrapIffClusterWideOwner ==
    /\ bootstrapRuns > 0 => BootstrapDue
    /\ bootstrap # "none" => BootstrapDue
    /\ PastBootstrap => (bootstrapRuns = 1 <=> BootstrapDue)
    /\ (PastBootstrap /\ ~BootstrapDue) => bootstrap = "none"

\* a namespace-restricted deployment that still owns CRDs by its flags has
\* skipped the bootstrap and registered every dispatcher
C14_Witness ==
    /\ ~flags.disableCRDOwnership
    /\ flags.watchNss # {}
    /\ bootstrapRuns = 0
    /\ controllers = Len(Dispatchers)

\* nothing of the startup after the bootstrap has happened
NothingAfterBootstrap ==
    /\ ~webhooks
    /\ controllers = 0
    /\ converter = "none"
    /\ mgr = "created"

\* C15: a failure of the ownership bootstrap, of its client or of its run,
\* makes RunManager return the error: the bootstrap is not run again, no
\* webhook and no dispatcher is registered, the converter is not created and
\* the manager is not started, and nothing happens after the return.
C15_BootstrapFailureIsFatal ==
    /\ [](bootstrap = "failed" =>
            (ret = "error" /\ bootstrapRuns = 1 /\ NothingAfterBootstrap))
    /\ [][(mpc \in {"ownership", "init"} /\ mpc' = "returned") =>
            (ret' = "error" /\ NothingAfterBootstrap')]_vars
    /\ [][mpc = "returned" => UNCHANGED startup]_vars

\* vmv1beta1.Init has failed with webhooks enabled on the command line
C15_Witness ==
    /\ bootstrap = "failed"
    /\ flags.enableWebhooks
    /\ mpc = "returned"

\* the command line asks for mTLS without TLS
MalformedTLS == flags.mtlsEnable /\ ~flags.tlsEnable

\* C21: with -mtls.enable and without -tls.enable, RunManager ends in the
\* panic of configureTLS when it comes to build the manager's options: the
\* manager is never created, the ownership bootstrap never runs, nothing is
\* registered and nothing happens after the panic; no other command line
\* panics, and without -mtls.enable configureTLS returns no option.
C21_MalformedTLSAbortsStartup ==
    /\ [](MalformedTLS =>
            /\ mgr = "none"
            /\ bootstrap = "none"
            /\ bootstrapRuns = 0
            /\ ~webhooks
            /\ controllers = 0
            /\ converter = "none")
    /\ [][(MalformedTLS /\ mpc = "newmanager" /\ mpc' # mpc) =>
            (ret' = "panic" /\ mpc' = "returned")]_vars
    /\ [][ret = "panic" => UNCHANGED startup]_vars
    /\ [](ret = "panic" => MalformedTLS)
    /\ [](~flags.mtlsEnable => configureTLS(flags) = [panic |-> FALSE, opts |-> <<>>])

\* RunManager has panicked on a command line that asks for the ownership
\* bootstrap and for webhooks
C21_Witness ==
    /\ ret = "panic"
    /\ mpc = "returned"
    /\ ~flags.disableCRDOwnership
    /\ flags.watchNss = {}
    /\ flags.enableWebhooks

\* C18: the readiness check answers ready only if one of its cache-sync
\* waits has succeeded; a check whose wait times out answers not-ready,
\* leaves wasCacheSynced at zero, so that the next check waits again, and
\* changes nothing of the manager or of a reconciler.
C18_ReadyOnlyAfterCacheSync ==
    /\ [](\A p \in Probes : pres[p] = "ready" => (waitOk /\ cacheSynced))
    /\ [](wasCacheSynced > 0 => waitOk)
    /\ [][\A p \in Probes :
            (pres[p] # "notready" /\ pres'[p] = "notready") =>
                /\ wasCacheSynced' = 0
                /\ UNCHANGED <<startup, reconcileVars, transport, cacheSynced>>]_vars
    /\ [][\A p \in Probes :
            (ppc[p] = "idle" /\ ppc'[p] # "idle" /\ wasCacheSynced = 0) =>
                ppc'[p] = "wait"]_vars

\* one check has timed out and, after the caches got synced, another one has
\* waited and answered ready
C18_Witness ==
    \E p, q \in Probes :
        /\ pres[p] = "notready"
        /\ pres[q] = "ready"
        /\ wasCacheSynced = 1

Range(s) == {s[i] : i \in DOMAIN s}

\* the elements of a finite set of numbers, in ascending order
RECURSIVE AscSeq(_)
AscSeq(S) ==
    IF S = {} THEN <<>>
    ELSE LET m == CHOOSE x \in S : \A y \in S : y <= x
         IN  Append(AscSeq(S \ {m}), m)

\* the items of the list whose iteration has ended in worker w's pass
Progress(w) == IF failedAt[w] # 0 THEN failedAt[w] ELSE idx[w] - 1

\* neither being deleted nor flagged with a parsing error
Eligible(c) == ~c.deleting /\ ~c.parsingError

\* the matcher was invoked for item i and returned out
MatcherReturned(w, i, out) ==
    \E j \in DOMAIN matcherCalls[w] : matcherCalls[w][j] = i /\ matcherOut[w][j] = out

\* the matcher was invoked for item i and returned an error
MatcherErrored(w, i) ==
    \E j \in DOMAIN matcherCalls[w] : matcherCalls[w][j] = i /\ matcherOut[w][j][2]

\* the pair (item, target) counts as matched
Matched(inst, c) ==
    inst.deleting \/ c.selectAll \/ isSelectorsMatchesTargetCRD(inst, c) = <<TRUE, FALSE>>

\* the pass of worker w has run through the whole list without a failure
\* of the materializer
PassComplete(w) == pc[w] = "done" /\ listed[w] = "ok" /\ failedAt[w] = 0

C3_SelectAllBypassesMatcher ==
    \A w \in Workers : \A i \in 1..Len(objects[w]) :
        LET c == objects[w][i] IN
        (Eligible(c) /\ c.selectAll) =>
            /\ i \notin Range(matcherCalls[w])
            /\ i <= Progress(w) => i \in Range(materialized[w])

\* a select-all item with a selector team=x has been materialized for a
\* target without labels in another namespace
C3_Witness ==
    \E w \in Workers :
        /\ pc[w] = "done"
        /\ ~instance[w].deleting
        /\ instance[w].labels = {}
        /\ instance[w].namespace = "ns2"
        /\ \E i \in Range(materialized[w]) :
            objects[w][i].selectAll /\ objects[w][i].selector = "team=x"

\* C4: a throttled attempt has returned nil and an empty result, has listed
\* no candidates, has invoked neither the matcher nor the materializer and
\* has issued no write call, also for a target that is being deleted.
C4_ThrottledDoesNothing ==
    \A w \in Workers :
        gate[w] = "throttled" =>
            /\ pc[w] = "done"
            /\ err[w] = NilErr
            /\ result[w] = EmptyResult
            /\ listed[w] = "none"
            /\ objects[w] = <<>>
            /\ matcherCalls[w] = <<>>
            /\ materialized[w] = <<>>
            /\ writes[w] = 0

\* an attempt for a target that is being deleted was throttled, with
\* VMAlerts in the cluster that it would have been materialized for
C4_Witness ==
    \E w \in Workers :
        /\ gate[w] = "throttled"
        /\ instance[w].deleting
        /\ \E i \in 1..Len(vmalerts) : Eligible(vmalerts[i])

\* C5: no two workers are inside Reconcile for the same key, and the keys
\* inside Reconcile are the keys the queue holds as processing.
C5_OneReconcilePerKey ==
    /\ \A w1, w2 \in Workers :
        (w1 # w2 /\ pc[w1] # "idle" /\ pc[w2] # "idle") => req[w1] # req[w2]
    /\ processing = {req[w] : w \in {v \in Workers : pc[v] # "idle"}}

\* two reconciles of distinct keys overlap while a further event for one of
\* these keys has arrived
C5_Witness ==
    \E w1, w2 \in Workers :
        /\ w1 # w2
        /\ pc[w1] \notin {"idle", "done"}
        /\ pc[w2] \notin {"idle", "done"}
        /\ req[w1] # req[w2]
        /\ req[w1] \in dirty

\* C6: a Get that reports not-found ends Reconcile with no error and an
\* empty result, before the gate, the list and any materializer call.
C6_NotFoundIsTerminalSuccess ==
    \A w \in Workers :
        fetch[w] = "notfound" =>
            /\ pc[w] = "done"
            /\ err[w] = NilErr
            /\ result[w] = EmptyResult
            /\ gate[w] = "none"
            /\ listed[w] = "none"
            /\ objects[w] = <<>>
            /\ materialized[w] = <<>>
            /\ writes[w] = 0

\* a reconcile of a removed VMRule, with an eligible VMAlert in the cluster
C6_Witness ==
    \E w \in Workers :
        /\ fetch[w] = "notfound"
        /\ pc[w] = "done"
        /\ \E i \in 1..Len(vmalerts) : Eligible(vmalerts[i]) /\ vmalerts[i].selectAll

\* C7: an item whose selector evaluation failed is not materialized; every
\* other item whose iteration has ended is materialized exactly when it is
\* eligible and matched, as without the failing item; and a pass that ran
\* through without a materializer failure has handled every item and
\* returns nil and an empty result.
C7_SelectorErrorSkipsOneCandidate ==
    \A w \in Workers :
        /\ \A i \in 1..Progress(w) :
            IF MatcherErrored(w, i)
            THEN i \notin Range(materialized[w])
            ELSE i \in Range(materialized[w])
                     <=> (Eligible(objects[w][i]) /\ Matched(instance[w], objects[w][i]))
        /\ PassComplete(w) =>
            /\ Progress(w) = Len(objects[w])
            /\ err[w] = NilErr
            /\ result[w] = EmptyResult

\* a pass in which the selector of one item failed and a later item was
\* matched and materialized has returned nil
C7_Witness ==
    \E w \in Workers :
        /\ PassComplete(w)
        /\ err[w] = NilErr
        /\ \E i, k \in 1..Len(objects[w]) :
            /\ i < k
            /\ MatcherErrored(w, i)
            /\ MatcherReturned(w, k, <<TRUE, FALSE>>)
            /\ k \in Range(materialized[w])

\* C8: after a materializer failure Reconcile has returned a non-nil error
\* at that item: no later item was matched or materialized, and what earlier
\* items of the pass had materialized is still in place.
C8_MaterializerFailureAborts ==
    \A w \in Workers :
        failedAt[w] # 0 =>
            /\ pc[w] = "done"
            /\ err[w] # NilErr
            /\ idx[w] = failedAt[w]
            /\ materialized[w] # <<>>
            /\ materialized[w][Len(materialized[w])] = failedAt[w]
            /\ \A i \in Range(matcherCalls[w]) \cup Range(materialized[w]) :
                   i <= failedAt[w]
            /\ \A i \in Range(materialized[w]) \ {failedAt[w]} : i \in derived

\* the materializer has failed for the second item after it had succeeded
\* for the first
C8_Witness ==
    \E w \in Workers :
        /\ failedAt[w] = 2
        /\ materialized[w] = <<1, 2>>
        /\ 1 \in derived

\* C9: a failed Get other than not-found, and a failed list, have each
\* ended Reconcile with a non-nil error and without any matcher or
\* materializer invocation.
C9_GetAndListFailuresAbort ==
    \A w \in Workers :
        /\ fetch[w] = "error" =>
            /\ pc[w] = "done"
            /\ err[w] # NilErr
            /\ gate[w] = "none"
            /\ listed[w] = "none"
            /\ matcherCalls[w] = <<>>
            /\ materialized[w] = <<>>
        /\ listed[w] = "error" =>
            /\ pc[w] = "done"
            /\ err[w] # NilErr
            /\ objects[w] = <<>>
            /\ matcherCalls[w] = <<>>
            /\ materialized[w] = <<>>

\* a list has failed in the retry of a reconcile whose Get had failed
C9_Witness ==
    \E w \in Workers :
        /\ listed[w] = "error"
        /\ pc[w] = "done"
        /\ req[w] \in backoff
        /\ \E i \in 1..Len(vmalerts) : Eligible(vmalerts[i])

\* C10: the matcher and the materializer are never invoked for an item
\* that is being deleted or carries a parsing error, also for a target that
\* is being deleted; the materializer calls of the pass are, in list order,
\* those for the other items that count as matched, and a pass without
\* materializer failure returns nil and an empty result.
C10_PoisonedCandidatesAreSkipped ==
    \A w \in Workers :
        /\ \A i \in 1..Len(objects[w]) :
            (objects[w][i].deleting \/ objects[w][i].parsingError) =>
                i \notin Range(matcherCalls[w]) \cup Range(materialized[w])
        /\ materialized[w] =
               AscSeq({i \in 1..Progress(w) :
                          /\ ~(objects[w][i].deleting \/ objects[w][i].parsingError)
                          /\ \/ instance[w].deleting
                             \/ objects[w][i].selectAll
                             \/ MatcherReturned(w, i, <<TRUE, FALSE>>)})
        /\ PassComplete(w) => (err[w] = NilErr /\ result[w] = EmptyResult)

\* a pass for a deleting target has skipped a first item that carries a
\* parsing error and has materialized the second
C10_Witness ==
    \E w \in Workers :
        /\ PassComplete(w)
        /\ instance[w].deleting
        /\ Len(objects[w]) = 2
        /\ objects[w][1].parsingError
        /\ ~objects[w][1].deleting
        /\ materialized[w] = <<2>>

\* ------------------------------------------------ the order of a pass
\* C23 as stated: within one reconcile the admission gate is consulted before
\* the target is fetched: a pass that has fetched, or has listed, has been
\* admitted by the gate.
C23_GateBeforeFetch ==
    \A w \in Workers :
        /\ fetch[w] # "none" => gate[w] = "admitted"
        /\ listed[w] # "none" => gate[w] = "admitted"

\* C23: within one reconcile the target is fetched first; the admission gate
\* is consulted only after a successful fetch, and a failed fetch ends the
\* pass without consulting it; the related resources are enumerated only
\* after the gate has admitted the attempt, and a throttled pass has fetched
\* the target and registered it but enumerates nothing.
C23_FetchBeforeGateBeforeList ==
    /\ [](\A w \in Workers :
            /\ gate[w] # "none" => fetch[w] = "ok" /\ req[w] \in registered
            /\ listed[w] # "none" => gate[w] = "admitted"
            /\ fetch[w] \in {"notfound", "error"} =>
                 gate[w] = "none" /\ listed[w] = "none"
            /\ gate[w] = "throttled" => listed[w] = "none" /\ objects[w] = <<>>)
    /\ [][\A w \in Workers :
            /\ fetch'[w] # fetch[w] /\ fetch'[w] # "none" =>
                 pc[w] = "get" /\ gate[w] = "none"
            /\ listed'[w] # listed[w] /\ listed'[w] # "none" =>
                 pc[w] = "list" /\ gate[w] = "admitted"]_vars

\* a throttled pass is over: it has fetched the VMRule, and listed nothing
C23_Witness ==
    \E w \in Workers :
        /\ pc[w] = "done"
        /\ fetch[w] = "ok"
        /\ instance[w] = targets[req[w]]
        /\ gate[w] = "throttled"
        /\ listed[w] = "none"
        /\ budget = 0

\* ------------------------------------------------ the order of the startup
\* the ownership bootstrap is over: run to its end, or skipped
BootstrapSettled == bootstrap = (IF BootstrapDue THEN "done" ELSE "none")

\* the webhook registration is over: done, or not asked for
WebhooksSettled == webhooks = flags.enableWebhooks

\* mgr.Start has been entered with success
Started == mgr \notin {"none", "created"}

\* C24: RunManager starts the manager only after the ownership bootstrap (or
\* its skip), the optional webhook registration, the registration of all
\* sixteen dispatchers and the creation and addition of the converter, each
\* step only after the ones before it; a step that fails makes RunManager
\* return the error at once, registering and starting nothing more.
C24_StartupOrderAndFirstFailure ==
    /\ [](webhooks => BootstrapSettled /\ flags.enableWebhooks)
    /\ [](controllers > 0 => BootstrapSettled /\ WebhooksSettled)
    /\ [](converter # "none" =>
            BootstrapSettled /\ WebhooksSettled /\ controllers = Len(Dispatchers))
    /\ [](Started =>
            /\ BootstrapSettled
            /\ WebhooksSettled
            /\ controllers = Len(Dispatchers)
            /\ converter \notin {"none", "created"})
    /\ [][(ret = "none" /\ ret' = "error" /\ ~Started) =>
            /\ mpc' = "returned"
            /\ ~Started'
            /\ webhooks' = webhooks
            /\ controllers' = controllers
            /\ converter' = converter]_vars
    /\ [][(mpc = "returned" /\ ~Started) =>
            /\ ret' = ret
            /\ mgr' = mgr
            /\ webhooks' = webhooks
            /\ controllers' = controllers
            /\ converter' = converter]_vars
    /\ [][(controllers' # controllers \/ mgr' # mgr \/ converter' # converter
             \/ webhooks' # webhooks) => ret = "none" /\ mpc # "returned"]_vars

\* the registration of the fourth dispatcher has failed, after the bootstrap
\* and the webhooks: RunManager has returned the error with three dispatchers
\* registered, no converter and a manager that was never started
C24_Witness ==
    /\ ret = "error"
    /\ mpc = "returned"
    /\ bootstrap = "done"
    /\ webhooks
    /\ controllers = 3
    /\ converter = "none"
    /\ mgr = "created"

\* ------------------------------------------------ the cache-synced latch
\* wasCacheSynced takes the values 0 and 1, changes only from 0 to 1, in the
\* step in which a cache-sync wait of a probe returns true, and is not reset
Latch ==
    /\ [](wasCacheSynced \in {0, 1})
    /\ [][wasCacheSynced' # wasCacheSynced =>
            /\ wasCacheSynced = 0
            /\ wasCacheSynced' = 1
            /\ cacheSynced
            /\ \E p \in Probes :
                 ppc[p] = "wait" /\ ppc'[p] = "done" /\ pres'[p] = "ready"]_vars
    /\ [][wasCacheSynced = 1 => wasCacheSynced' = 1]_vars

\* C25 as stated: wasCacheSynced is a monotonic latch, and once it is 1 no
\* probe waits on the cache any more: every step a probe then takes towards
\* its answer is the fast path's, from the load straight to ready.
C25_LatchAndNoWaitOnceSet ==
    /\ Latch
    /\ [][\A p \in Probes :
            (wasCacheSynced = 1 /\ ppc'[p] # ppc[p] /\ ppc'[p] # "idle") =>
                (ppc[p] = "idle" /\ ppc'[p] = "done" /\ pres'[p] = "ready")]_vars

\* C25: wasCacheSynced is a monotonic latch under any interleaving of probe
\* calls: it takes only the values 0 and 1, changes only from 0 to 1 and only
\* when a cache-sync wait returned true, and is never reset; every probe call
\* that loads it once it is 1 answers ready at once, without a cache wait.
\* (A call that loaded 0 before the flag was set still makes its wait.)
C25_LatchAndFastPathAfterLoad ==
    /\ Latch
    /\ [][\A p \in Probes :
            (wasCacheSynced = 1 /\ ppc[p] = "idle" /\ ppc'[p] # "idle") =>
                (ppc'[p] = "done" /\ pres'[p] = "ready"
                 /\ UNCHANGED <<cacheSynced, wasCacheSynced, waitOk>>)]_vars
    /\ [](\A p \in Probes : (ppc[p] = "wait" /\ wasCacheSynced = 1) => cacheSynced)

\* the wait of one probe call has set the flag while another call, which had
\* loaded 0, is still before its own wait
C25_Witness ==
    \E p, q \in Probes :
        /\ wasCacheSynced = 1
        /\ ppc[p] = "done"
        /\ pres[p] = "ready"
        /\ ppc[q] = "wait"
        /\ mgr = "started"

\* ------------------------------------------------ concurrent passes
\* workers v and w both have a materializer call for the same VMAlert in
\* flight, for different VMRules
SameParentInFlight(v, w) ==
    /\ v # w
    /\ pc[v] = "materialize"
    /\ pc[w] = "materialize"
    /\ req[v] # req[w]
    /\ idx[v] = idx[w]
    /\ objects[v][idx[v]] = objects[w][idx[w]]

\* C26: the dispatcher serializes per key and not per parent: two passes in
\* flight never hold the same key, and no pass ever waits for another one:
\* a pass inside the range loop can take its next step, the materializer
\* call for a VMAlert included, and a materializer call in flight can
\* return, whatever the other workers are doing, also when another worker
\* has a materializer call for the same VMAlert in flight.
C26_NoMutualExclusionPerParent ==
    /\ \A v, w \in Workers :
        (v # w /\ pc[v] # "idle" /\ pc[w] # "idle") => req[v] # req[w]
    /\ \A w \in Workers :
        /\ pc[w] = "loop" => ENABLED Loop(w)
        /\ pc[w] = "materialize" => ENABLED CreateOrUpdateRuleConfigMaps(w)

\* two passes for r1 and r2 are both inside the materializer call for the
\* one VMAlert of the cluster
C26_Witness == \E v, w \in Workers : SameParentInFlight(v, w)

\* ------------------------------------------------ the cache options
\* the object names of the claim, each with the type the cache is disabled for
DisabledObject ==
    [namespace |-> "corev1.Namespace", pod |-> "corev1.Pod",
     secret |-> "corev1.Secret", configmap |-> "corev1.ConfigMap",
     deployment |-> "appsv1.Deployment", statefulset |-> "appsv1.StatefulSet"]

\* s is a list of object names: names at the odd places, commas between them
NameList(s) ==
    /\ Len(s) % 2 = 1
    /\ \A i \in 1..Len(s) :
        IF i % 2 = 1 THEN s[i] \in DOMAIN DisabledObject ELSE s[i] = Comma

\* the objects for the names of a list of object names, in input order
ObjectsOf(s) == [i \in 1..((Len(s) + 1) \div 2) |-> DisabledObject[s[2 * i - 1]]]

\* the value of -controller.disableCacheFor
Given == flags.disableCacheForObjects

\* RunManager has got past its call of getClientCacheOptions
PastCacheOptions == mpc \notin {"flags", "cacheopts"}

\* C27: getClientCacheOptions yields for the empty string options without a
\* cache-disabled object and no error; for a comma-separated list of names
\* among namespace, pod, secret, configmap, deployment and statefulset one
\* disabled object per element, in input order, and no error; for any other
\* value, an empty element from a leading, trailing or doubled comma
\* included, an error and no options, and RunManager then returns the error
\* before it creates the manager.
C27_CacheOptionsFromNameList ==
    /\ [](PastCacheOptions =>
            IF Given = <<>>
            THEN co = [nil |-> FALSE, DisableFor |-> <<>>]
            ELSE IF NameList(Given)
            THEN ~co.nil /\ co.DisableFor = ObjectsOf(Given)
            ELSE co = NilOptions /\ ret = "error" /\ mpc = "returned" /\ mgr = "none")
    /\ [][(mpc = "cacheopts" /\ mpc' # mpc) =>
            IF Given = <<>> \/ NameList(Given)
            THEN mpc' = "newmanager" /\ ret' = "none"
            ELSE mpc' = "returned" /\ ret' = "error"]_vars
    /\ []((Given = <<>> \/ NameList(Given)) <=> ~getClientCacheOptions(Given).err)

\* the value secret,pod has given the two objects in that order, and the
\* manager is created with them
C27_Witness ==
    /\ flags.disableCacheForObjects = <<"secret", Comma, "pod">>
    /\ co = [nil |-> FALSE, DisableFor |-> <<"corev1.Secret", "corev1.Pod">>]
    /\ mgr = "created"

TypeOK ==
    /\ budget \in 0..LimiterBudget
    /\ \A w \in Workers :
        /\ pc[w] \in {"idle", "get", "gate", "list", "loop", "materialize", "done"}
        /\ idx[w] \in 0..(MaxCands + 1)
        /\ err[w] \in {NilErr, "geterr", "listerr", "materr"}

====
